---- MODULE Spec2Model ----
(***************************************************************************)
(* The in-memory fixed-window rate limiter of packages/lib (rateLimit, its *)
(* module-level store, its setInterval sweeper and the withRateLimit       *)
(* wrapper), as a state machine.                                           *)
(* Every limiter created by rateLimit closes over the one module-level     *)
(* store.  The middleware has no await, so one call is one atomic step of  *)
(* the event loop; the same holds for one run of the sweeper callback.     *)
(***************************************************************************)
EXTENDS Integers, Sequences, FiniteSets, TLC

VARIABLES
  now,        \* the value Date.now() returns
  store,      \* the module-level Map<string, RequestCount> (a partial function)
  resp,       \* what the last step did (the response of the last request)
  win,        \* history: per key, the fixed window the last checks fell in
  shadow,     \* history: the store as it would be had the sweeper never run
  hist,       \* history: the decisions of the requests of a recorded scenario
  wrapped     \* one call of a handler wrapped by withRateLimit: its promise

vars == <<now, store, resp, win, shadow, hist, wrapped>>

----------------------------------------------------------------------------
(* Bounds of the model *)

\* the clock takes values in the first MaxWindows sweep intervals
MaxWindows == 2
\* a live record is not pushed beyond this count
MaxCount == 3
\* a recorded scenario holds at most this many requests
MaxHist == 5

----------------------------------------------------------------------------
(* Inputs *)

\* the options rateLimit is instantiated with: a plain policy, a policy with
\* an audit hook and a longer window, a policy that admits nothing, and the
\* policy of the spec's scenario
Policies ==
  << [windowMs |-> 60000,  maxRequests |-> 2, onRateLimitReached |-> FALSE,
      skipSuccessfulRequests |-> FALSE, skipFailedRequests |-> FALSE],
     [windowMs |-> 120000, maxRequests |-> 1, onRateLimitReached |-> TRUE,
      skipSuccessfulRequests |-> TRUE,  skipFailedRequests |-> FALSE],
     [windowMs |-> 60000,  maxRequests |-> 0, onRateLimitReached |-> FALSE,
      skipSuccessfulRequests |-> FALSE, skipFailedRequests |-> TRUE],
     [windowMs |-> 60000,  maxRequests |-> 3, onRateLimitReached |-> FALSE,
      skipSuccessfulRequests |-> FALSE, skipFailedRequests |-> FALSE] >>

\* the limiters that serve the requests
Limiters == {1, 2, 3}

\* the limiter of the spec's scenario
ScenarioLimiter == 4

\* req.socket.remoteAddress: an address, or nothing ("" stands for undefined)
RemoteAddresses == {"A", ""}

\* the default keyGenerator: req.socket.remoteAddress || 'unknown'
keyGenerator(addr) == IF addr = "" THEN "unknown" ELSE addr

Keys == {keyGenerator(a) : a \in RemoteAddresses}

\* the interval of the sweeper's timer
SweepIntervalMs == 60000

\* the instants of the requests of the spec's scenario, in order
ScenarioChecks == <<0, 10, 20, 30, 61000>>

ScenarioTimes == {ScenarioChecks[i] : i \in 1..Len(ScenarioChecks)}

\* the values the clock takes: the start of each sweep interval, and the
\* scenario's instant 10 ms after the first
Instants == {10} \cup {w * SweepIntervalMs : w \in 0..MaxWindows}

LastInstant == CHOOSE t \in Instants : \A u \in Instants : u <= t

----------------------------------------------------------------------------
(* The pure parts of rateLimit and of the sweeper *)

NoRecord == [count |-> -1, resetTime |-> -1]

\* store.get(key), NoRecord standing for undefined
StoreGet(s, k) == IF k \in DOMAIN s THEN s[k] ELSE NoRecord

StoreSetAlone(s, k, r) == [x \in {k} |-> r]

\* store.set(key, requestCount)
StoreSet(s, k, r) == [x \in DOMAIN s \cup {k} |-> IF x = k THEN r ELSE s[x]]

ExpiredAtBoundary(r, t) == t >= r.resetTime

\* now > requestCount.resetTime
Expired(r, t) == t > r.resetTime

NewWindowCounted(t, w) == [count |-> 1, resetTime |-> t + w]

\* { count: 0, resetTime: now + windowMs }
NewWindow(t, w) == [count |-> 0, resetTime |-> t + w]

\* !requestCount || now > requestCount.resetTime
NeedsWindow(s, k, t) == IF k \in DOMAIN s THEN Expired(s[k], t) ELSE TRUE

FetchOrCreateAlways(s, k, t, w) == StoreSet(s, k, NewWindow(t, w))

FetchOrCreateSliding(s, k, t, w) ==
  IF NeedsWindow(s, k, t) THEN StoreSet(s, k, NewWindow(t, w))
  ELSE [s EXCEPT ![k].resetTime = t + w]

\* the store after "get or create request count for this key"
FetchOrCreate(s, k, t, w) ==
  IF NeedsWindow(s, k, t) THEN StoreSet(s, k, NewWindow(t, w)) ELSE s

\* requestCount.count++ (requestCount is the object the store holds)
Increment(s, k) == [s EXCEPT ![k].count = @ + 1]

ExceededAtLimit(c, max) == c >= max

ExceededUnlessZero(c, max) == max > 0 /\ c > max

\* requestCount.count > maxRequests
Exceeded(c, max) == c > max

RetryAfterReversed(resetTime, t) == -((resetTime - t) \div 1000)

RetryAfterFloor(resetTime, t) == (resetTime - t) \div 1000

\* Math.ceil((requestCount.resetTime - now) / 1000)
RetryAfter(resetTime, t) == -((t - resetTime) \div 1000)

RemainingBeforeIncrement(max, c) == IF max - c + 1 > 0 THEN max - c + 1 ELSE 0

\* Math.max(0, maxRequests - requestCount.count)
Remaining(max, c) == IF max - c > 0 THEN max - c ELSE 0

StaleAtBoundary(r, t) == t >= r.resetTime

\* the sweeper's test: now > value.resetTime
Stale(r, t) == t > r.resetTime

SweptNothing(s, t) == s

\* the store after one run of the sweeper's callback: store.delete(key) for
\* every entry the test holds of
Swept(s, t) == [k \in {x \in DOMAIN s : ~Stale(s[x], t)} |-> s[k]]

----------------------------------------------------------------------------
(* History bookkeeping: the fixed window of a key, by the clock alone *)

\* no check has been made for the key yet
NoWin == [start |-> -1, until |-> -1, n |-> 0, denied |-> FALSE]

\* the window w is open at time t: a check installed it and t is not past its end
InWindow(w, t) == w.n > 0 /\ t <= w.until

\* the window after a check by limiter l at time t, admitted or not
Counted(w, l, t, admitted) ==
  IF InWindow(w, t)
  THEN [w EXCEPT !.n = @ + 1, !.denied = ~admitted]
  ELSE [start |-> t, until |-> t + Policies[l].windowMs, n |-> 1,
        denied |-> ~admitted]

----------------------------------------------------------------------------
(* What a check by a limiter would produce *)

\* the count, the resetTime and the decision limiter l would produce for key k
\* if it checked k now
Outlook(l, k) ==
  LET rc == Increment(FetchOrCreate(store, k, now, Policies[l].windowMs), k)[k]
  IN [count |-> rc.count, resetTime |-> rc.resetTime,
      allowed |-> ~Exceeded(rc.count, Policies[l].maxRequests)]

----------------------------------------------------------------------------
(* The state machine *)

\* no wrapped handler has been called
NoCall == [outcome |-> "none", handler |-> "idle", handlerCalls |-> 0,
           promise |-> "none"]

Init ==
  /\ now = 0
  /\ store = [k \in {} |-> NoRecord]
  /\ resp = [op |-> "init"]
  /\ win = [k \in Keys |-> NoWin]
  /\ shadow = [k \in {} |-> NoRecord]
  /\ hist = << >>
  /\ wrapped = NoCall

\* what fails during a request: nothing, logger.warn (it throws when
\* called) or the onRateLimitReached hook (it throws when called)
Failures == {"none", "logger", "hook"}

\* One call of the middleware rateLimit(Policies[l]) returns, for a request
\* from addr during which f fails.
rateLimit(l, addr, f) ==
  LET p        == Policies[l]
      logThrows == f = "logger"
      hookThrows == f = "hook"
      key      == keyGenerator(addr)
      before   == StoreGet(store, key)
      boundary == before # NoRecord /\ before.resetTime = now
      fresh    == NeedsWindow(store, key, now)
      s1       == FetchOrCreate(store, key, now, p.windowMs)
      s2       == Increment(s1, key)
      rc       == s2[key]
      exceeded == Exceeded(rc.count, p.maxRequests)
      logFails == exceeded /\ logThrows
      hookRuns == exceeded /\ ~logFails /\ p.onRateLimitReached
      hookFails == hookRuns /\ hookThrows
      sent429  == exceeded /\ ~logFails /\ ~hookFails
      outcome  == IF ~exceeded THEN "allowed"
                  ELSE IF sent429 THEN "denied" ELSE "threw"
      w0       == win[key]
      retry    == IF sent429 THEN RetryAfter(rc.resetTime, now) ELSE -1
  IN
  /\ store' = s2
  /\ shadow' = Increment(FetchOrCreate(shadow, key, now, p.windowMs), key)
  /\ win' = [win EXCEPT ![key] = Counted(w0, l, now, ~exceeded)]
  /\ resp' = [op         |-> "check",
              limiter    |-> l,
              key        |-> key,
              at         |-> now,
              prior      |-> IF w0.n = 0 THEN "none"
                             ELSE IF InWindow(w0, now) THEN "live" ELSE "expired",
              priorDenied |-> w0.denied,
              boundaryCount |-> IF boundary THEN before.count ELSE -1,
              fresh      |-> fresh,
              count      |-> rc.count,
              resetTime  |-> rc.resetTime,
              outcome    |-> outcome,
              logged     |-> IF exceeded /\ ~logFails THEN 1 ELSE 0,
              hookCalls  |-> IF hookRuns THEN 1 ELSE 0,
              logThrew   |-> logFails,
              hookThrew  |-> hookFails,
              status     |-> IF sent429 THEN 429 ELSE 0,
              retryAfter |-> retry,
              limit      |-> IF ~exceeded THEN p.maxRequests ELSE -1,
              remaining  |-> IF ~exceeded THEN Remaining(p.maxRequests, rc.count) ELSE -1,
              reset      |-> IF ~exceeded THEN rc.resetTime ELSE -1,
              nextCalls  |-> IF ~exceeded THEN 1 ELSE 0]
  /\ UNCHANGED now

\* a request goes through one of the limiters
Request ==
  /\ \E l \in Limiters, addr \in RemoteAddresses, f \in Failures :
       /\ Outlook(l, keyGenerator(addr)).count <= MaxCount
       /\ rateLimit(l, addr, f)
  /\ UNCHANGED <<hist, wrapped>>

\* The setInterval callback runs once.  A timer fires when the event loop gets
\* to it, so a run is taken at any instant of the clock.
Sweep ==
  /\ store' = Swept(store, now)
  /\ resp' = [op |-> "sweep", at |-> now]
  /\ UNCHANGED <<now, win, shadow, hist, wrapped>>

\* the clock moves on to an instant of T
Advance(T) ==
  /\ \E t \in T : t > now /\ now' = t
  /\ resp' = [op |-> "tick"]
  /\ UNCHANGED <<store, win, shadow, hist, wrapped>>

Tick == Advance(Instants)

Next == Request \/ Sweep \/ Tick

Spec == Init /\ [][Next]_vars

\* time passes and the timer fires
FairSpec == Spec /\ WF_vars(Tick) /\ WF_vars(Sweep)

\* The spec's scenario: requests from "A" through the scenario's limiter alone,
\* logger working, each decision recorded
ScenarioRequest ==
  /\ Len(hist) < MaxHist
  /\ rateLimit(ScenarioLimiter, "A", "none")
  /\ hist' = Append(hist, [at |-> now, outcome |-> resp'.outcome,
                           resetTime |-> resp'.resetTime,
                           remaining |-> resp'.remaining,
                           retryAfter |-> resp'.retryAfter])
  /\ UNCHANGED wrapped

ScenarioTick == Advance(Instants \cup ScenarioTimes)

ScenarioNext == ScenarioRequest \/ Sweep \/ ScenarioTick

ScenarioSpec == Init /\ [][ScenarioNext]_vars

\* the address of the requests that go through the wrapped handler
WrappedAddress == "A"

AfterHandlerSkipped(s, k) ==
  IF k \in DOMAIN s THEN [s EXCEPT ![k].count = @ - 1] ELSE s

\* the store once the route handler has finished: withRateLimit reports
\* nothing back to the limiter, whatever skipSuccessfulRequests and
\* skipFailedRequests are
AfterHandler(s, k) == s

\* The function withRateLimit(rateLimit(Policies[l]))(handler) returns is
\* called.  The executor of its promise runs the middleware with
\* next = resolve; when next is called the promise is resolved and the
\* handler starts in the microtask of .then, before any other request or
\* timer.  The promise the call returns is the one .then returns.
WrappedCall ==
  /\ wrapped.handler # "running"
  /\ \E l \in Limiters, f \in Failures :
       /\ Outlook(l, keyGenerator(WrappedAddress)).count <= MaxCount
       /\ rateLimit(l, WrappedAddress, f)
  /\ wrapped' = IF resp'.nextCalls = 1
                THEN [outcome |-> resp'.outcome, handler |-> "running",
                      handlerCalls |-> 1, promise |-> "pending"]
                ELSE [outcome |-> resp'.outcome, handler |-> "idle",
                      handlerCalls |-> 0, promise |-> "pending"]
  /\ UNCHANGED hist

\* another request for the same key goes through a limiter meanwhile
OtherCall ==
  /\ \E l \in Limiters, f \in Failures :
       /\ Outlook(l, keyGenerator(WrappedAddress)).count <= MaxCount
       /\ rateLimit(l, WrappedAddress, f)
  /\ UNCHANGED <<hist, wrapped>>

\* the route handler of the wrapped call finishes: it returns (its promise is
\* fulfilled) or throws (its promise is rejected)
HandlerDone ==
  /\ wrapped.handler = "running"
  /\ \E r \in {"fulfilled", "rejected"} :
       wrapped' = [wrapped EXCEPT !.handler = "done", !.promise = r]
  /\ store' = AfterHandler(store, keyGenerator(WrappedAddress))
  /\ resp' = [op |-> "done"]
  /\ UNCHANGED <<now, win, shadow, hist>>

WrapNext == WrappedCall \/ OtherCall \/ HandlerDone \/ Sweep \/ Tick

WrapSpec == Init /\ [][WrapNext]_vars

----------------------------------------------------------------------------
(* Reading the last step *)

\* the last step was a check
Checked == resp.op = "check"

----------------------------------------------------------------------------
(* C1 *)

\* C1: the n-th check made for a key inside one window (from the check that
\* installs the record until its resetTime) calls next iff n <= maxRequests of
\* the limiter that makes it.
C1NthAllowedIffWithinMax ==
  Checked =>
    (resp.nextCalls = 1 <=>
       win[resp.key].n <= Policies[resp.limiter].maxRequests)

\* check number maxRequests + 1 of a window, the first one denied, after
\* maxRequests admitted ones
C1Witness ==
  /\ Checked
  /\ resp.limiter = 1
  /\ win[resp.key].n = Policies[1].maxRequests + 1
  /\ ~resp.priorDenied
  /\ resp.nextCalls = 0
  /\ resp.status = 429

----------------------------------------------------------------------------
(* C2 *)

\* C2: a check made through one limiter changes neither the count, nor the
\* resetTime, nor the decision another limiter produces for the same key.
C2OwnStorePerPolicy ==
  [][\A l \in Limiters, k \in Keys :
       (resp'.op = "check" /\ resp'.limiter # l /\ resp'.key = k)
         => Outlook(l, k)' = Outlook(l, k)]_vars

----------------------------------------------------------------------------
(* C3 *)

\* C3 as stated: the first check after the key's window has elapsed installs
\* a fresh record, leaves count 1 and is allowed, for every policy.
C3RenewalAlwaysAllowed ==
  (Checked /\ resp.prior = "expired") =>
    /\ resp.fresh
    /\ store[resp.key].count = 1
    /\ resp.outcome = "allowed"

\* C3 amended: the first check after the key's window has elapsed installs a
\* fresh record {count 1, resetTime now + windowMs} whatever the previous
\* window held, and calls next iff maxRequests >= 1.
C3RenewalUnconditional ==
  (Checked /\ resp.prior = "expired") =>
    /\ resp.fresh
    /\ resp.count = 1
    /\ store[resp.key] =
         [count |-> 1, resetTime |-> resp.at + Policies[resp.limiter].windowMs]
    /\ resp.nextCalls = 1 <=> Policies[resp.limiter].maxRequests >= 1

\* a key that was being denied is admitted by the first check after its window
C3Witness ==
  /\ Checked
  /\ resp.prior = "expired"
  /\ resp.priorDenied
  /\ resp.outcome = "allowed"

----------------------------------------------------------------------------
(* C4 *)

\* C4 as stated: a check at now = resetTime of the key's record replaces the
\* record by a fresh one and sees count 1.
C4BoundaryIsNewWindow ==
  (Checked /\ resp.boundaryCount >= 0) =>
    /\ resp.fresh
    /\ resp.count = 1
    /\ resp.resetTime = resp.at + Policies[resp.limiter].windowMs

\* C4 amended: a check at now = resetTime of the key's record belongs to the
\* old window: the record is kept, its count goes up by one and its resetTime
\* stays.
C4BoundaryIsOldWindow ==
  (Checked /\ resp.boundaryCount >= 0) =>
    /\ ~resp.fresh
    /\ resp.count = resp.boundaryCount + 1
    /\ resp.resetTime = resp.at
    /\ store[resp.key] = [count |-> resp.count, resetTime |-> resp.at]

\* a check at exactly the resetTime of a record that counted one request
C4Witness ==
  /\ Checked
  /\ resp.boundaryCount = 1
  /\ resp.at = now
  /\ store[resp.key].resetTime = now

----------------------------------------------------------------------------
(* C5 *)

\* the recorded requests are those of the scenario: one at each of its instants
ScenarioRun ==
  /\ Len(hist) >= Len(ScenarioChecks)
  /\ \A i \in 1..Len(ScenarioChecks) : hist[i].at = ScenarioChecks[i]

\* the first three requests of the scenario and the fifth
ScenarioAdmissions ==
  /\ hist[1].outcome = "allowed" /\ hist[1].remaining = 2
  /\ hist[2].outcome = "allowed" /\ hist[2].remaining = 1
  /\ hist[3].outcome = "allowed" /\ hist[3].remaining = 0
  /\ hist[5].outcome = "allowed" /\ hist[5].remaining = 2

\* C5 as stated: with windowMs 60000 and maxRequests 3, the checks at 0, 10, 20
\* are allowed with remaining 2, 1, 0, the check at 30 is denied with
\* retryAfter 30, the check at 61000 is allowed with remaining 2.
C5ScenarioRetryAfter30 ==
  ScenarioRun =>
    /\ ScenarioAdmissions
    /\ hist[4].outcome = "denied" /\ hist[4].retryAfter = 30

\* C5 amended: the same, the check at 30 being denied with retryAfter 60
\* (ceil((60000 - 30) / 1000)).
C5ScenarioRetryAfter60 ==
  ScenarioRun =>
    /\ ScenarioAdmissions
    /\ hist[4].outcome = "denied" /\ hist[4].retryAfter = 60

\* the five requests of the scenario have been served
C5Witness == ScenarioRun /\ resp.op = "check" /\ resp.at = 61000

----------------------------------------------------------------------------
(* C6 *)

\* C6: a request that exceeds the limit receives its 429 with retryAfter,
\* also when logger.warn or the onRateLimitReached hook throws.
C6DenialAlwaysDelivered ==
  (Checked /\ Exceeded(resp.count, Policies[resp.limiter].maxRequests)) =>
    /\ resp.outcome = "denied"
    /\ resp.status = 429
    /\ resp.retryAfter = RetryAfter(resp.resetTime, resp.at)

----------------------------------------------------------------------------
(* C7 *)

\* C7: whatever the order in which the requests for a key are served, the
\* n-th check of a window observes count n (no increment is lost) and a
\* fresh record is installed only when the key has no open window (no live
\* record is overwritten).
C7ChecksAreLinearized ==
  Checked =>
    /\ resp.count = win[resp.key].n
    /\ store[resp.key].count = win[resp.key].n
    /\ resp.fresh <=> resp.prior # "live"
    /\ resp.nextCalls =
         (IF resp.count <= Policies[resp.limiter].maxRequests THEN 1 ELSE 0)

\* three requests for one key served at the same instant, the third denied
C7Witness ==
  /\ Checked
  /\ resp.limiter = 1
  /\ win[resp.key].start = now
  /\ win[resp.key].n = 3
  /\ resp.count = 3
  /\ resp.outcome = "denied"

----------------------------------------------------------------------------
(* C8 *)

\* C8: the store with the sweeper and the store without it agree on every
\* record a check treats as live: a record the sweeper removed is one a check
\* would replace, and every check leaves the same record in both, so it
\* observes the same count and resetTime with and without the sweeper.
C8SweeperIsTransparent ==
  /\ \A k \in DOMAIN store : k \in DOMAIN shadow /\ shadow[k] = store[k]
  /\ \A k \in DOMAIN shadow \ DOMAIN store : shadow[k].resetTime < now
  /\ Checked => /\ resp.count = shadow[resp.key].count
                /\ resp.resetTime = shadow[resp.key].resetTime

\* a run of the sweeper has removed an expired record and kept one whose
\* resetTime is now
C8Witness ==
  /\ resp.op = "sweep"
  /\ DOMAIN shadow \ DOMAIN store # {}
  /\ \E k \in DOMAIN store : store[k].resetTime = now

----------------------------------------------------------------------------
(* C9 *)

\* right after a run of the sweeper no record has a resetTime earlier than now
SweptClean ==
  resp.op = "sweep" => \A k \in DOMAIN store : store[k].resetTime >= now

\* right after a run of the sweeper a key whose window ended before now is
\* absent from the store
SweptCold ==
  resp.op = "sweep" =>
    \A k \in Keys : (win[k].n > 0 /\ win[k].until < now) => k \notin DOMAIN store

\* the record of k is one whose resetTime the clock gets past
Expiring(k) == k \in DOMAIN store /\ store[k].resetTime < LastInstant

\* C9: right after a run of the sweeper at time T the store holds no record
\* with resetTime < T, so no key whose window ended before T; and, the clock
\* advancing and the timer firing, every record whose resetTime the clock
\* gets past is eventually removed (or replaced by a later window, when the
\* key is checked again).
C9SweeperReclaims ==
  /\ [](SweptClean /\ SweptCold)
  /\ \A k \in Keys : Expiring(k) ~> ~Expiring(k)

\* a run of the sweeper has removed the record of a key whose window is over
C9Witness ==
  /\ resp.op = "sweep"
  /\ \E k \in Keys : win[k].n > 0 /\ win[k].until < now /\ k \notin DOMAIN store

----------------------------------------------------------------------------
(* C10 *)

\* C10: a check for a key leaves every other key as it was: in the store or
\* not, with the same count and resetTime.
C10OtherKeysUntouched ==
  [][resp'.op = "check" =>
       \A b \in Keys : b # resp'.key => StoreGet(store', b) = StoreGet(store, b)]_vars

\* a check for one key while the other key has a record with another count
C10Witness ==
  /\ Checked
  /\ \E b \in DOMAIN store : b # resp.key /\ store[b].count # store[resp.key].count

----------------------------------------------------------------------------
(* C11 *)

\* C11: on every allowed check the X-RateLimit-Remaining header is
\* maxRequests - count, count being the record's count after this check's
\* increment, and it is not negative.
C11RemainingIsMaxMinusCount ==
  (Checked /\ resp.outcome = "allowed") =>
    /\ resp.remaining = Policies[resp.limiter].maxRequests - store[resp.key].count
    /\ resp.remaining >= 0

\* the last admitted check of a window (remaining 0) and an earlier one
C11Witness ==
  /\ Checked
  /\ resp.outcome = "allowed"
  /\ resp.limiter = 1
  /\ resp.count = 2
  /\ resp.remaining = 0

----------------------------------------------------------------------------
(* C12 *)

\* C12: the retryAfter of a denied check is ceil((resetTime - now) / 1000)
\* and >= 0, and it is not larger than the retryAfter of an earlier denied
\* check for the same key in the same window.
C12RetryAfterShrinks ==
  \A j \in 1..Len(hist) :
    hist[j].outcome = "denied" =>
      /\ hist[j].retryAfter >= 0
      /\ (hist[j].retryAfter - 1) * 1000 < hist[j].resetTime - hist[j].at
      /\ hist[j].resetTime - hist[j].at <= hist[j].retryAfter * 1000
      /\ \A i \in 1..(j - 1) :
           (hist[i].outcome = "denied" /\ hist[i].resetTime = hist[j].resetTime)
             => hist[j].retryAfter <= hist[i].retryAfter

\* two denied checks in one window, the later one with a smaller retryAfter
C12Witness ==
  \E i, j \in 1..Len(hist) :
    /\ i < j
    /\ hist[i].outcome = "denied" /\ hist[j].outcome = "denied"
    /\ hist[i].resetTime = hist[j].resetTime
    /\ hist[i].at < hist[j].at
    /\ hist[j].retryAfter < hist[i].retryAfter

----------------------------------------------------------------------------
(* C13 *)

\* C13: under a policy with maxRequests = 0 every check takes the denied
\* branch and next is not called: the first check for a key and the first
\* check after a renewal too.  The 429 is sent unless logger.warn or the hook
\* throws.
C13ZeroAdmitsNothing ==
  (Checked /\ Policies[resp.limiter].maxRequests = 0) =>
    /\ resp.nextCalls = 0
    /\ resp.outcome # "allowed"
    /\ Exceeded(resp.count, 0)
    /\ (~resp.logThrew /\ ~resp.hookThrew) => resp.status = 429

\* the first check after a renewal, denied with count 1
C13Witness ==
  /\ Checked
  /\ Policies[resp.limiter].maxRequests = 0
  /\ resp.prior = "expired"
  /\ resp.fresh
  /\ resp.count = 1
  /\ resp.status = 429

----------------------------------------------------------------------------
(* C14 *)

\* C14: every record of the store has resetTime = the time of the check that
\* installed it + windowMs of the limiter that check went through; the
\* checks that follow in the window leave it as it is.
C14ResetTimeIsFixed ==
  \A k \in DOMAIN store :
    /\ win[k].n > 0
    /\ store[k].resetTime = win[k].until
    /\ Checked /\ resp.key = k /\ ~resp.fresh => resp.resetTime = win[k].until

\* a record installed through the limiter with the longer window, checked
\* again later in its window
C14Witness ==
  /\ Checked
  /\ ~resp.fresh
  /\ resp.at > win[resp.key].start
  /\ resp.limiter = 1
  /\ store[resp.key].resetTime = win[resp.key].start + Policies[2].windowMs

----------------------------------------------------------------------------
(* C15 *)

\* C15: a check that takes the denied branch emits exactly one 'Rate limit
\* exceeded' log event and calls the onRateLimitReached hook exactly once
\* when one is configured; an allowed check does neither.
C15AuditOncePerDenial ==
  Checked =>
    IF Exceeded(resp.count, Policies[resp.limiter].maxRequests)
    THEN /\ resp.logged = 1
         /\ resp.hookCalls =
              (IF Policies[resp.limiter].onRateLimitReached THEN 1 ELSE 0)
    ELSE resp.logged = 0 /\ resp.hookCalls = 0

----------------------------------------------------------------------------
(* C16 *)

\* the request was denied: the 429 was sent and next was not called
DeniedOutcome ==
  /\ resp.outcome = "denied"
  /\ resp.status = 429
  /\ resp.nextCalls = 0

\* the request was allowed: the three headers were set, next was called once
\* and no 429 was sent
AllowedOutcome ==
  /\ resp.outcome = "allowed"
  /\ resp.limit = Policies[resp.limiter].maxRequests
  /\ resp.remaining >= 0
  /\ resp.reset = resp.resetTime
  /\ resp.nextCalls = 1
  /\ resp.status # 429

\* C16: every request ends in exactly one of the two outcomes, and the
\* handler wrapped by withRateLimit runs at most once per call and only
\* after an allowed decision.
C16DeniedOrAllowed ==
  /\ Checked => (DeniedOutcome \/ AllowedOutcome)
  /\ wrapped.handlerCalls <= 1
  /\ wrapped.handlerCalls = 1 => wrapped.outcome = "allowed"

----------------------------------------------------------------------------
(* C17 *)

\* every record of the store has counted at least one request
CountsArePositive == \A k \in DOMAIN store : store[k].count >= 1

\* a check raises the count of the key's record by one within its window,
\* and leaves 1 in a window it opens; the end of a handler leaves the store
\* as it is; no step lowers the count of a record that stays
CountStep ==
  /\ resp'.op = "check" =>
       store'[resp'.key].count =
         (IF resp'.prior = "live" THEN store[resp'.key].count + 1 ELSE 1)
  /\ resp'.op = "done" => store' = store
  /\ \A k \in DOMAIN store \cap DOMAIN store' :
       store'[k].resetTime = store[k].resetTime
         => store'[k].count >= store[k].count

\* C17: within a live window every check for the key, denied ones included,
\* raises the count of its record by exactly 1; the count is never lowered,
\* whatever the skip flags of the policy and the outcome of the handler; so
\* every record of the store has count >= 1.
C17CountGrowsByOne == []CountsArePositive /\ [][CountStep]_vars

\* a denied check of a policy with skipSuccessfulRequests raises a count
\* that is above maxRequests already, after a handler has finished
C17Witness ==
  /\ Checked
  /\ Policies[resp.limiter].skipSuccessfulRequests
  /\ resp.prior = "live"
  /\ resp.priorDenied
  /\ resp.count > Policies[resp.limiter].maxRequests + 1
  /\ wrapped.handler = "done"

----------------------------------------------------------------------------
(* C18 *)

\* C18: every call of a wrapped handler completes, when the request is
\* allowed and when it is denied.  Only the end of the handler settles the
\* promise of the call, so the call completes iff, as long as the promise is
\* pending, that step is ahead.
C18WrappedCallSettles ==
  wrapped.promise = "pending" => ENABLED HandlerDone

====
